---- MODULE Spec2Model ----
(***************************************************************************)
(* Model of static/sw.js, the gold-shop service worker: the install,      *)
(* fetch and activate listeners over the host's CacheStorage, network and *)
(* clients interfaces.                                                     *)
(*                                                                         *)
(* A URL path is the sequence of its segments ("/static/style.css" is     *)
(* <<"static", "style.css">>, "/" is <<>>), so that the substring test    *)
(* url.includes('/api/') is computed and not assumed.                     *)
(*                                                                         *)
(* The host dispatches install once, activate once after install has      *)
(* settled, and fetch events once the worker controls clients, which is   *)
(* from the call of clients.claim() on.  Every promise the listeners      *)
(* create settles in a step of its own, so the listeners interleave       *)
(* exactly at their awaits.  The environment may fail a cache open, a     *)
(* cache write, a cache delete and a network fetch; cache lookups and the *)
(* enumeration of cache names always resolve.                             *)
(***************************************************************************)
EXTENDS Integers, Sequences, FiniteSets

\* ------------------------------------------------------------ constants

\* sw.js:2
CACHE_NAME == "goldshop-cache-v3"

\* Every cache name of the model, in the order the instances were created.
Generations == <<"goldshop-cache-v1", "goldshop-cache-v2", "goldshop-cache-v3">>

AllNames == {Generations[i] : i \in 1..Len(Generations)}

Root == <<>>
Dashboard == <<"dashboard">>
Login == <<"login">>
OfflineUrl == <<"offline.html">>
AppJs == <<"static", "app.js">>
ApiItems == <<"api", "items">>

\* sw.js:5-19
urlsToCache ==
    << Root,
       Dashboard,
       Login,
       <<"static", "style.css">>,
       <<"static", "images", "icon-192x192.png">>,
       <<"static", "images", "icon-512x512.png">>,
       <<"static", "images", "icon-maskable-192x192.png">>,
       <<"static", "sw.js">>,
       OfflineUrl >>

ManifestIdx == 1..Len(urlsToCache)

ManifestUrls == {urlsToCache[i] : i \in ManifestIdx}

\* The URLs of the model: the manifest and the URLs fetch events ask for.
Urls == ManifestUrls \cup {AppJs, ApiItems}

\* ------------------------------------------------------------ bounds

\* At most this many manifest entries fail to cache in one install (Spec).
MaxAddFailures == 1

\* ------------------------------------------------------------ responses

\* A Response is [status, type, body].  Three values stand for what is not
\* a Response: undefined, a rejected promise, and a promise still pending.
Undefined == [status |-> 0, type |-> "undefined", body |-> "-"]
Failure(e) == [status |-> 0, type |-> "error", body |-> e]
Pending == [status |-> 0, type |-> "pending", body |-> "-"]

\* The errors the network may reject a fetch with.
NetworkErrors == {"TypeError", "AbortError"}

IsFailure(r) == r.type = "error"

\* What an earlier deployment left in a cache instance.
OldResponse == [status |-> 200, type |-> "basic", body |-> "old"]

\* What cache.add(url) stores: the response fetched during install.
InstalledResponse == [status |-> 200, type |-> "basic", body |-> "installed"]

\* The fetch handlers that can be in flight together.
Slots == {"f1", "f2"}

\* The fetch handler that runs alone in Spec.
One == {"f1"}

\* The responses the network may resolve a fetch with; undefined stands for
\* the missing response that sw.js:62 tests for.
NetworkResponses ==
    { [status |-> st, type |-> ty, body |-> b] :
        st \in {200, 404}, ty \in {"basic", "cors"}, b \in {"netA", "netB"} }
      \cup {Undefined}

IsResponse(r) == r.type \in {"basic", "cors"}

\* IsValidResponse without the test of the response type.
IsValidResponseAnyType(r) ==
    /\ r # Undefined
    /\ r.status = 200

\* IsValidResponse testing for a missing response alone.
IsValidResponseNotMissing(r) == r # Undefined

\* sw.js:62 (the negation of the condition)
IsValidResponse(r) ==
    /\ r # Undefined
    /\ r.status = 200
    /\ r.type = "basic"

\* ------------------------------------------------------------ requests

Request(u, m, mo, a) == [url |-> u, method |-> m, mode |-> mo, accept |-> a]

\* The fetch events of the model.  accept is "html" for a header containing
\* 'text/html', "other" for one that does not, "absent" for no header.
Requests ==
    { Request(Dashboard, "GET", "navigate", "html"),
      Request(Login, "POST", "navigate", "html"),
      Request(AppJs, "GET", "no-cors", "other"),
      Request(ApiItems, "GET", "cors", "other"),
      Request(AppJs, "GET", "cors", "absent"),
      Request(ApiItems, "POST", "cors", "absent") }

NoRequest == Request(Root, "-", "-", "-")

\* sw.js:46-47: headers.get('accept') is null when the header is absent, and
\* null.includes throws; && and || short-circuit.
ClassifyThrows(r) ==
    /\ r.mode # "navigate"
    /\ r.method = "GET"
    /\ r.accept = "absent"

\* sw.js:46-47
isHtmlNavigation(r) ==
    \/ r.mode = "navigate"
    \/ (r.method = "GET" /\ r.accept = "html")

\* sw.js:80: url.includes('/api/'): a segment "api" that another follows.
ContainsApiMarker(u) == \E i \in 1..(Len(u) - 1) : u[i] = "api"

\* ShouldCache without the test for the API marker.
ShouldCacheAnyPath(r) == r.method = "GET"

\* sw.js:80
ShouldCache(r) == r.method = "GET" /\ ~ContainsApiMarker(r.url)

\* ------------------------------------------------------------ state

VARIABLES
    cacheNames,       \* CacheStorage: names of the existing instances, oldest first
    store,            \* CacheStorage: store[name][url], Undefined where no entry
    installPc,        \* install listener: "idle", "opening", "adding", "done" (waitUntil resolved)
    installOpen,      \* install listener: "-", "opened", "failed" (caches.open)
    addStatus,        \* install listener: per manifest index, the cache.add promise
    actPc,            \* activate listener: "idle", "keys", "deleting", "resolved", "rejected"
    delStatus,        \* activate listener: per cache name, the caches.delete promise
    claimed,          \* activate listener: clients.claim() has been called
    pc,               \* fetch listener, per slot: "idle", "match", "network", "fallback", "done", "threw"
    req,              \* fetch listener, per slot: event.request
    cachedResponse,   \* fetch listener, per slot: what caches.match(event.request) gave
    fetchCalls,       \* fetch listener, per slot: calls of fetch(event.request) so far
    networkResponse,  \* fetch listener, per slot: what fetch(event.request) settled to
    askedOffline,     \* fetch listener, per slot: caches.match('/offline.html') was called
    result,           \* fetch listener, per slot: what respondWith's promise settled to
    wpc               \* fetch listener, per slot: the write-through, "none", "open", "put",
                      \*   "stored", "skipped", "failed"

storageVars == <<cacheNames, store>>
installVars == <<installPc, installOpen, addStatus>>
activateVars == <<actPc, delStatus, claimed>>
fetchVars == <<pc, req, cachedResponse, fetchCalls, networkResponse, askedOffline,
              result, wpc>>
vars == <<cacheNames, store, installPc, installOpen, addStatus, actPc, delStatus,
          claimed, pc, req, cachedResponse, fetchCalls, networkResponse, askedOffline,
          result, wpc>>

\* ------------------------------------------------------------ CacheStorage

Existing(names) == {names[i] : i \in 1..Len(names)}

EmptyCache == [u \in Urls |-> Undefined]

\* caches.open(name): the instance is created when absent, at the end of the list.
OpenCache(names, name) ==
    IF name \in Existing(names) THEN names ELSE Append(names, name)

\* caches.delete(name)
DeleteCache(names, name) == SelectSeq(names, LAMBDA n : n # name)

\* CachesMatch searching the current-generation instance alone.
CachesMatchCurrentOnly(names, st, u, m) ==
    IF m # "GET" \/ CACHE_NAME \notin Existing(names)
    THEN Undefined
    ELSE st[CACHE_NAME][u]

\* caches.match(request): the instances are searched in creation order and the
\* first entry found is the answer; a request that is not a GET matches nothing.
CachesMatch(names, st, u, m) ==
    LET hits == {i \in 1..Len(names) : st[names[i]][u] # Undefined}
    IN  IF m # "GET" \/ hits = {}
        THEN Undefined
        ELSE st[names[CHOOSE i \in hits : \A j \in hits : i <= j]][u]

\* ------------------------------------------------------------ initial states

\* The entries an earlier deployment may have left in an instance.
SeedUrls == {Dashboard, OfflineUrl}

SeededCache == [u \in Urls |-> IF u \in SeedUrls THEN OldResponse ELSE Undefined]

\* The lists of instances that may exist when the worker is installed.
InitialNames ==
    { SelectSeq(Generations, LAMBDA n : n \in S) : S \in SUBSET AllNames }

IdleSlots ==
    /\ pc = [s \in Slots |-> "idle"]
    /\ req = [s \in Slots |-> NoRequest]
    /\ cachedResponse = [s \in Slots |-> Pending]
    /\ fetchCalls = [s \in Slots |-> 0]
    /\ networkResponse = [s \in Slots |-> Pending]
    /\ askedOffline = [s \in Slots |-> FALSE]
    /\ result = [s \in Slots |-> Pending]
    /\ wpc = [s \in Slots |-> "none"]

Init ==
    /\ cacheNames \in InitialNames
    /\ store = [n \in AllNames |->
                  IF n \in Existing(cacheNames) THEN SeededCache ELSE EmptyCache]
    /\ installPc = "idle"
    /\ installOpen = "-"
    /\ addStatus = [i \in ManifestIdx |-> "unattempted"]
    /\ actPc = "idle"
    /\ delStatus = [n \in AllNames |-> "none"]
    /\ claimed = FALSE
    /\ IdleSlots

\* ------------------------------------------------------------ install (sw.js:22-41)

\* sw.js:22-25: the listener calls caches.open(CACHE_NAME) inside waitUntil.
InstallStart ==
    /\ installPc = "idle"
    /\ installPc' = "opening"
    /\ UNCHANGED <<installOpen, addStatus, storageVars, activateVars, fetchVars>>

\* sw.js:26-35: the open resolved; cache.add is called for every manifest entry.
InstallOpenOk ==
    /\ installPc = "opening"
    /\ cacheNames' = OpenCache(cacheNames, CACHE_NAME)
    /\ installOpen' = "opened"
    /\ addStatus' = [i \in ManifestIdx |-> "pending"]
    /\ installPc' = "adding"
    /\ UNCHANGED <<store, activateVars, fetchVars>>

\* InstallOpenFail without the outer catch: the promise given to waitUntil rejects.
InstallOpenFailPropagates ==
    /\ installPc = "opening"
    /\ installOpen' = "failed"
    /\ installPc' = "rejected"
    /\ UNCHANGED <<addStatus, storageVars, activateVars, fetchVars>>

\* sw.js:37-39: the open rejected; the outer catch logs and the chain resolves.
InstallOpenFail ==
    /\ installPc = "opening"
    /\ installOpen' = "failed"
    /\ installPc' = "done"
    /\ UNCHANGED <<addStatus, storageVars, activateVars, fetchVars>>

\* AddOk fetching the entry without storing it.
AddOkNoStore(i) ==
    /\ installPc = "adding"
    /\ addStatus[i] = "pending"
    /\ addStatus' = [addStatus EXCEPT ![i] = "ok"]
    /\ UNCHANGED <<storageVars, installPc, installOpen, activateVars, fetchVars>>

\* sw.js:31: cache.add(url) fetched an ok response and stored it.
AddOk(i) ==
    /\ installPc = "adding"
    /\ addStatus[i] = "pending"
    /\ addStatus' = [addStatus EXCEPT ![i] = "ok"]
    /\ store' = [store EXCEPT ![CACHE_NAME][urlsToCache[i]] = InstalledResponse]
    /\ UNCHANGED <<cacheNames, installPc, installOpen, activateVars, fetchVars>>

\* sw.js:31-33: cache.add(url) rejected; the catch logs and resolves.
AddFail(i, limit) ==
    /\ installPc = "adding"
    /\ addStatus[i] = "pending"
    /\ Cardinality({j \in ManifestIdx : addStatus[j] = "failed"}) < limit
    /\ addStatus' = [addStatus EXCEPT ![i] = "failed"]
    /\ UNCHANGED <<storageVars, installPc, installOpen, activateVars, fetchVars>>

\* AllSettled as a race: the first promise to settle settles the whole.
AnySettled == \E i \in ManifestIdx : addStatus[i] \in {"ok", "failed"}

\* sw.js:35: Promise.all(cachePromises) resolves once every promise has.
AllSettled == \A i \in ManifestIdx : addStatus[i] \in {"ok", "failed"}

\* sw.js:35-40: the promise given to waitUntil resolves.
InstallComplete ==
    /\ installPc = "adding"
    /\ AllSettled
    /\ installPc' = "done"
    /\ UNCHANGED <<installOpen, addStatus, storageVars, activateVars, fetchVars>>

\* ------------------------------------------------------------ activate (sw.js:103-120)

\* cacheWhitelist naming no generation: the sweep deletes every instance.
cacheWhitelistNone == {}

\* sw.js:105
cacheWhitelist == {CACHE_NAME}

\* ActivateStart without the call of clients.claim().
ActivateStartNoClaim ==
    /\ installPc = "done"
    /\ actPc = "idle"
    /\ actPc' = "keys"
    /\ UNCHANGED <<claimed, delStatus, storageVars, installVars, fetchVars>>

\* sw.js:104-107, 119: the listener calls caches.keys() inside waitUntil and
\* then, in the same synchronous run, self.clients.claim().
ActivateStart ==
    /\ installPc = "done"
    /\ actPc = "idle"
    /\ actPc' = "keys"
    /\ claimed' = TRUE
    /\ UNCHANGED <<delStatus, storageVars, installVars, fetchVars>>

\* ToDelete stopping at the first name that is not whitelisted.
ToDeleteOldestOnly(keys) ==
    LET stale == {i \in 1..Len(keys) : keys[i] \notin {CACHE_NAME}}
    IN  {keys[i] : i \in {j \in stale : \A k \in stale : j <= k}}

\* sw.js:109-114: the names caches.delete is called for.
ToDelete(keys) == {n \in Existing(keys) : n \notin cacheWhitelist}

\* sw.js:107-115: keys() resolved; every delete is issued in the one map call.
KeysResolve ==
    /\ actPc = "keys"
    /\ delStatus' = [n \in AllNames |->
                       IF n \in ToDelete(cacheNames) THEN "pending" ELSE delStatus[n]]
    /\ actPc' = "deleting"
    /\ UNCHANGED <<claimed, storageVars, installVars, fetchVars>>

\* sw.js:112: caches.delete(cacheName) resolved.
DeleteOk(n) ==
    /\ delStatus[n] = "pending"
    /\ delStatus' = [delStatus EXCEPT ![n] = "deleted"]
    /\ cacheNames' = DeleteCache(cacheNames, n)
    /\ store' = [store EXCEPT ![n] = EmptyCache]
    /\ UNCHANGED <<actPc, claimed, installVars, fetchVars>>

\* sw.js:112: caches.delete(cacheName) rejected.
DeleteFail(n) ==
    /\ delStatus[n] = "pending"
    /\ delStatus' = [delStatus EXCEPT ![n] = "failed"]
    /\ UNCHANGED <<actPc, claimed, storageVars, installVars, fetchVars>>

\* ActivateSettle when the map callback does not return the delete promises:
\* Promise.all resolves without waiting for them.
ActivateSettleEarly ==
    /\ actPc = "deleting"
    /\ actPc' = "resolved"
    /\ UNCHANGED <<delStatus, claimed, storageVars, installVars, fetchVars>>

\* sw.js:108-115: Promise.all rejects with the first rejection and resolves
\* when no promise is left pending.
ActivateSettle ==
    /\ actPc = "deleting"
    /\ \/ /\ \E n \in AllNames : delStatus[n] = "failed"
          /\ actPc' = "rejected"
       \/ /\ \A n \in AllNames : delStatus[n] \notin {"pending", "failed"}
          /\ actPc' = "resolved"
    /\ UNCHANGED <<delStatus, claimed, storageVars, installVars, fetchVars>>

\* ------------------------------------------------------------ fetch (sw.js:44-100)

Reusable(s) == pc[s] \in {"idle", "done", "threw"} /\ wpc[s] \notin {"open", "put"}

\* sw.js:44-50: the listener classifies the request and calls caches.match
\* inside respondWith; when the classification throws, respondWith is never
\* called and the listener has no result.
FetchEvent(s, r) ==
    /\ claimed
    /\ Reusable(s)
    /\ req' = [req EXCEPT ![s] = r]
    /\ pc' = [pc EXCEPT ![s] = IF ClassifyThrows(r) THEN "threw" ELSE "match"]
    /\ cachedResponse' = [cachedResponse EXCEPT ![s] = Pending]
    /\ fetchCalls' = [fetchCalls EXCEPT ![s] = 0]
    /\ networkResponse' = [networkResponse EXCEPT ![s] = Pending]
    /\ askedOffline' = [askedOffline EXCEPT ![s] = FALSE]
    /\ result' = [result EXCEPT ![s] = Pending]
    /\ wpc' = [wpc EXCEPT ![s] = "none"]
    /\ UNCHANGED <<storageVars, installVars, activateVars>>

\* Lookup going to the network whatever caches.match gave.
LookupIgnoresHit(s) ==
    /\ pc[s] = "match"
    /\ cachedResponse' = [cachedResponse EXCEPT ![s] =
                            CachesMatch(cacheNames, store, req[s].url, req[s].method)]
    /\ pc' = [pc EXCEPT ![s] = "network"]
    /\ fetchCalls' = [fetchCalls EXCEPT ![s] = @ + 1]
    /\ UNCHANGED <<req, networkResponse, askedOffline, result, wpc,
                   storageVars, installVars, activateVars>>

\* sw.js:50-59: caches.match resolved; a hit is returned, a miss goes to the
\* network.
Lookup(s) ==
    /\ pc[s] = "match"
    /\ LET hit == CachesMatch(cacheNames, store, req[s].url, req[s].method)
       IN  /\ cachedResponse' = [cachedResponse EXCEPT ![s] = hit]
           /\ IF hit # Undefined
              THEN /\ result' = [result EXCEPT ![s] = hit]
                   /\ pc' = [pc EXCEPT ![s] = "done"]
                   /\ fetchCalls' = fetchCalls
              ELSE /\ result' = result
                   /\ pc' = [pc EXCEPT ![s] = "network"]
                   /\ fetchCalls' = [fetchCalls EXCEPT ![s] = @ + 1]
    /\ UNCHANGED <<req, networkResponse, askedOffline, wpc,
                   storageVars, installVars, activateVars>>

\* sw.js:60-87: fetch resolved with nr.  An invalid response is answered by
\* the offline lookup (navigation) or returned as it is; a valid one is
\* cloned, caches.open is called and the response is returned.
NetworkRespond(s, nr) ==
    /\ pc[s] = "network"
    /\ networkResponse' = [networkResponse EXCEPT ![s] = nr]
    /\ IF ~IsValidResponse(nr)
       THEN IF isHtmlNavigation(req[s])
            THEN /\ pc' = [pc EXCEPT ![s] = "fallback"]
                 /\ askedOffline' = [askedOffline EXCEPT ![s] = TRUE]
                 /\ UNCHANGED <<result, wpc>>
            ELSE /\ pc' = [pc EXCEPT ![s] = "done"]
                 /\ result' = [result EXCEPT ![s] = nr]
                 /\ UNCHANGED <<askedOffline, wpc>>
       ELSE /\ pc' = [pc EXCEPT ![s] = "done"]
            /\ result' = [result EXCEPT ![s] = nr]
            /\ wpc' = [wpc EXCEPT ![s] = "open"]
            /\ UNCHANGED askedOffline
    /\ UNCHANGED <<req, cachedResponse, fetchCalls, storageVars, installVars,
                   activateVars>>

\* NetworkFail answering every request, navigation or not, by the offline lookup.
NetworkFailAlwaysFallsBack(s, e) ==
    /\ pc[s] = "network"
    /\ networkResponse' = [networkResponse EXCEPT ![s] = Failure(e)]
    /\ pc' = [pc EXCEPT ![s] = "fallback"]
    /\ askedOffline' = [askedOffline EXCEPT ![s] = TRUE]
    /\ UNCHANGED <<req, cachedResponse, fetchCalls, result, wpc,
                   storageVars, installVars, activateVars>>

\* NetworkFail calling fetch again after a rejection.
NetworkFailRetries(s, e) ==
    /\ pc[s] = "network"
    /\ networkResponse' = [networkResponse EXCEPT ![s] = Failure(e)]
    /\ fetchCalls' = [fetchCalls EXCEPT ![s] = @ + 1]
    /\ UNCHANGED <<pc, req, cachedResponse, askedOffline, result, wpc,
                   storageVars, installVars, activateVars>>

\* sw.js:88-97: fetch rejected with error e.  A navigation is answered by the
\* offline lookup; for any other request the error is thrown again.
NetworkFail(s, e) ==
    /\ pc[s] = "network"
    /\ networkResponse' = [networkResponse EXCEPT ![s] = Failure(e)]
    /\ IF isHtmlNavigation(req[s])
       THEN /\ pc' = [pc EXCEPT ![s] = "fallback"]
            /\ askedOffline' = [askedOffline EXCEPT ![s] = TRUE]
            /\ UNCHANGED result
       ELSE /\ pc' = [pc EXCEPT ![s] = "done"]
            /\ result' = [result EXCEPT ![s] = Failure(e)]
            /\ UNCHANGED askedOffline
    /\ UNCHANGED <<req, cachedResponse, fetchCalls, wpc, storageVars, installVars,
                   activateVars>>

\* sw.js:67, 93: caches.match('/offline.html') resolved, with undefined when
\* no instance holds the page.
Fallback(s) ==
    /\ pc[s] = "fallback"
    /\ result' = [result EXCEPT ![s] = CachesMatch(cacheNames, store, OfflineUrl, "GET")]
    /\ pc' = [pc EXCEPT ![s] = "done"]
    /\ UNCHANGED <<req, cachedResponse, fetchCalls, networkResponse, askedOffline, wpc,
                   storageVars, installVars, activateVars>>

\* WriteOpenOk with the guard never taken: the clone is dropped.
WriteOpenOkNeverPuts(s) ==
    /\ wpc[s] = "open"
    /\ cacheNames' = OpenCache(cacheNames, CACHE_NAME)
    /\ wpc' = [wpc EXCEPT ![s] = "skipped"]
    /\ UNCHANGED <<store, pc, req, cachedResponse, fetchCalls, networkResponse,
                   askedOffline, result, installVars, activateVars>>

\* sw.js:77-84: caches.open(CACHE_NAME) resolved; cache.put is called when
\* the guard holds.
WriteOpenOk(s) ==
    /\ wpc[s] = "open"
    /\ cacheNames' = OpenCache(cacheNames, CACHE_NAME)
    /\ wpc' = [wpc EXCEPT ![s] = IF ShouldCache(req[s]) THEN "put" ELSE "skipped"]
    /\ UNCHANGED <<store, pc, req, cachedResponse, fetchCalls, networkResponse,
                   askedOffline, result, installVars, activateVars>>

\* WriteOpenFail with the rejection reaching the caller in place of the response.
WriteOpenFailReported(s) ==
    /\ wpc[s] = "open"
    /\ wpc' = [wpc EXCEPT ![s] = "failed"]
    /\ result' = [result EXCEPT ![s] = Failure("TypeError")]
    /\ UNCHANGED <<storageVars, pc, req, cachedResponse, fetchCalls, networkResponse,
                   askedOffline, installVars, activateVars>>

\* sw.js:77: caches.open(CACHE_NAME) rejected; nothing handles the rejection.
WriteOpenFail(s) ==
    /\ wpc[s] = "open"
    /\ wpc' = [wpc EXCEPT ![s] = "failed"]
    /\ UNCHANGED <<storageVars, pc, req, cachedResponse, fetchCalls, networkResponse,
                   askedOffline, result, installVars, activateVars>>

\* WritePutOk keeping an entry already stored under the key.
WritePutOkKeepsExisting(s) ==
    /\ wpc[s] = "put"
    /\ store' = IF store[CACHE_NAME][req[s].url] = Undefined
                THEN [store EXCEPT ![CACHE_NAME][req[s].url] = networkResponse[s]]
                ELSE store
    /\ wpc' = [wpc EXCEPT ![s] = "stored"]
    /\ UNCHANGED <<cacheNames, pc, req, cachedResponse, fetchCalls, networkResponse,
                   askedOffline, result, installVars, activateVars>>

\* sw.js:82: cache.put(event.request, responseToCache) stored the clone,
\* replacing any entry under the same key.
WritePutOk(s) ==
    /\ wpc[s] = "put"
    /\ store' = [store EXCEPT ![CACHE_NAME][req[s].url] = networkResponse[s]]
    /\ wpc' = [wpc EXCEPT ![s] = "stored"]
    /\ UNCHANGED <<cacheNames, pc, req, cachedResponse, fetchCalls, networkResponse,
                   askedOffline, result, installVars, activateVars>>

\* sw.js:82: cache.put rejected; nothing handles the rejection.
WritePutFail(s) ==
    /\ wpc[s] = "put"
    /\ wpc' = [wpc EXCEPT ![s] = "failed"]
    /\ UNCHANGED <<storageVars, pc, req, cachedResponse, fetchCalls, networkResponse,
                   askedOffline, result, installVars, activateVars>>

\* ------------------------------------------------------------ specifications

InstallNext(limit) ==
    \/ InstallStart
    \/ InstallOpenOk
    \/ InstallOpenFail
    \/ \E i \in ManifestIdx : AddOk(i)
    \/ \E i \in ManifestIdx : AddFail(i, limit)
    \/ InstallComplete

ActivateNext ==
    \/ ActivateStart
    \/ KeysResolve
    \/ \E n \in AllNames : DeleteOk(n)
    \/ \E n \in AllNames : DeleteFail(n)
    \/ ActivateSettle

FetchNext(S) ==
    \/ \E s \in S, r \in Requests : FetchEvent(s, r)
    \/ \E s \in S : Lookup(s)
    \/ \E s \in S, nr \in NetworkResponses : NetworkRespond(s, nr)
    \/ \E s \in S, e \in NetworkErrors : NetworkFail(s, e)
    \/ \E s \in S : Fallback(s)
    \/ \E s \in S : WriteOpenOk(s)
    \/ \E s \in S : WriteOpenFail(s)
    \/ \E s \in S : WritePutOk(s)
    \/ \E s \in S : WritePutFail(s)

Next == InstallNext(MaxAddFailures) \/ ActivateNext \/ FetchNext(One)

\* The worker over its whole life: install, activate, and fetch events handled
\* one at a time.
Spec == Init /\ [][Next]_vars

\* The install listener alone, every subset of the manifest free to fail.
InstallSpec == Init /\ [][InstallNext(Len(urlsToCache))]_vars

\* Every promise a listener waits on settles, one way or the other; the host
\* is free never to dispatch another event.
Fairness ==
    /\ WF_vars(InstallOpenOk \/ InstallOpenFail)
    /\ WF_vars(\E i \in ManifestIdx : AddOk(i) \/ AddFail(i, MaxAddFailures))
    /\ WF_vars(InstallComplete)
    /\ WF_vars(KeysResolve)
    /\ WF_vars(\E n \in AllNames : DeleteOk(n) \/ DeleteFail(n))
    /\ WF_vars(ActivateSettle)
    /\ \A s \in One :
         /\ WF_vars(Lookup(s))
         /\ WF_vars((\E nr \in NetworkResponses : NetworkRespond(s, nr))
                      \/ (\E e \in NetworkErrors : NetworkFail(s, e)))
         /\ WF_vars(Fallback(s))
         /\ WF_vars(WriteOpenOk(s) \/ WriteOpenFail(s))
         /\ WF_vars(WritePutOk(s) \/ WritePutFail(s))

\* The worker installed on empty storage or on storage holding every
\* generation.
FairInit == Init /\ cacheNames \in {<<>>, Generations}

\* The worker's whole life with every pending promise settling eventually.
FairSpec == FairInit /\ [][Next]_vars /\ Fairness

\* The worker in control after an install on empty storage in which every
\* manifest entry was added, and an activation that found nothing to delete.
ConcurrentInit ==
    /\ cacheNames = <<CACHE_NAME>>
    /\ store = [n \in AllNames |->
                  IF n = CACHE_NAME
                  THEN [u \in Urls |->
                          IF u \in ManifestUrls THEN InstalledResponse ELSE Undefined]
                  ELSE EmptyCache]
    /\ installPc = "done"
    /\ installOpen = "opened"
    /\ addStatus = [i \in ManifestIdx |-> "ok"]
    /\ actPc = "resolved"
    /\ delStatus = [n \in AllNames |-> "none"]
    /\ claimed = TRUE
    /\ IdleSlots

\* Two fetch handlers in flight together on the installed, activated worker.
ConcurrentSpec == ConcurrentInit /\ [][FetchNext(Slots)]_vars

\* ------------------------------------------------------------ properties

HasEntry(n, u) == n \in Existing(cacheNames) /\ store[n][u] # Undefined

\* The entry for u in the oldest instance that holds one.
OldestEntry(u) ==
    LET i == CHOOSE i \in 1..Len(cacheNames) :
                 /\ store[cacheNames[i]][u] # Undefined
                 /\ \A j \in 1..(i - 1) : store[cacheNames[j]][u] = Undefined
    IN  store[cacheNames[i]][u]

\* C1 (cache precedence): when the lookup of a GET request resolves while some
\* existing instance holds an entry for its URL, the handler responds in that
\* very step with that entry (the one of the oldest instance holding one),
\* without asking the network and without a cache write.
C1_CachePrecedence ==
    [][\A s \in Slots :
         ( /\ pc[s] = "match"
           /\ pc'[s] # "match"
           /\ req[s].method = "GET"
           /\ \E n \in AllNames : HasEntry(n, req[s].url) )
         => ( /\ pc'[s] = "done"
              /\ result'[s] = OldestEntry(req[s].url)
              /\ IsResponse(result'[s])
              /\ networkResponse'[s] = Pending
              /\ wpc'[s] = "none" )]_vars

\* C1 witness: a request answered from an entry an earlier fetch wrote through.
C1_Witness ==
    \E s \in Slots :
        /\ pc[s] = "done"
        /\ cachedResponse[s] = result[s]
        /\ result[s].body \in {"netA", "netB"}
        /\ networkResponse[s] = Pending

\* C2 (offline fallback for navigation), as claimed: a navigation with no
\* cached match whose network fetch failed or gave an invalid response is
\* answered with the offline page, in every reachable state.
C2_OfflineFallbackAlways ==
    \A s \in Slots :
        ( /\ pc[s] = "done"
          /\ isHtmlNavigation(req[s])
          /\ cachedResponse[s] = Undefined
          /\ ~IsValidResponse(networkResponse[s]) )
        => /\ IsResponse(result[s])
           /\ result[s] \in {InstalledResponse, OldResponse}

\* C3 (no fallback masking): a request that is not a navigation, had no cached
\* match and whose network fetch was rejected ends with that same rejection,
\* and caches.match('/offline.html') was never called for it.
C3_FailurePropagates ==
    \A s \in Slots :
        ( /\ pc[s] = "done"
          /\ ~isHtmlNavigation(req[s])
          /\ cachedResponse[s] = Undefined
          /\ IsFailure(networkResponse[s]) )
        => /\ result[s] = networkResponse[s]
           /\ ~askedOffline[s]

\* C3 witness: a script request ended with the network's AbortError.
C3_Witness ==
    \E s \in Slots :
        /\ pc[s] = "done"
        /\ req[s] = Request(AppJs, "GET", "no-cors", "other")
        /\ cachedResponse[s] = Undefined
        /\ result[s] = Failure("AbortError")
        /\ ~askedOffline[s]

\* The requests of the model that are a GET without the API marker.
CacheableRequests ==
    {r \in Requests : r.method = "GET" /\ ~ContainsApiMarker(r.url)}

\* The write-through of request r has been started (r had no cached match and
\* got a valid response, or no write-through would have started).
WriteStarted(s, r) == wpc[s] = "open" /\ req[s] = r

\* C4 (write-through happens), as claimed: once the write-through of a GET
\* request without the API marker has been started, the current-generation
\* instance eventually holds an entry for the request.
C4_WriteThroughEventually ==
    \A s \in One, r \in CacheableRequests :
        WriteStarted(s, r) ~> (store[CACHE_NAME][r.url] # Undefined)

\* C4, amended: once the write-through of a GET request without the API marker
\* has been started, eventually the current-generation instance holds an entry
\* for the request or the cache open or the put has failed.
C4_WriteThroughUnlessFailed ==
    \A s \in One, r \in CacheableRequests :
        WriteStarted(s, r) ~>
            (store[CACHE_NAME][r.url] # Undefined \/ (req[s] = r /\ wpc[s] = "failed"))

\* C4 witness: the response of a script request has been stored.
C4_Witness ==
    \E s \in One :
        /\ wpc[s] = "stored"
        /\ req[s].url = AppJs
        /\ cachedResponse[s] = Undefined
        /\ store[CACHE_NAME][AppJs] = networkResponse[s]

\* C5 (selective write-through): no step of a fetch handler whose request is
\* not a GET or has the API marker in its URL changes any cache instance, no
\* instance ever holds an entry under a URL with the API marker, and a handler
\* that got a valid network response answers with it.
C5_SelectiveWriteThrough ==
    /\ [](\A n \in AllNames, u \in Urls :
            ContainsApiMarker(u) => store[n][u] = Undefined)
    /\ [](\A s \in Slots :
            (pc[s] = "done" /\ IsValidResponse(networkResponse[s]))
            => result[s] = networkResponse[s])
    /\ [][\A s \in Slots :
            ( /\ <<pc[s], wpc[s]>> # <<pc'[s], wpc'[s]>>
              /\ pc[s] # "idle"
              /\ (req[s].method # "GET" \/ ContainsApiMarker(req[s].url)) )
            => store' = store]_vars

\* C5 witness: GET /api/items got a valid response, the caller has it and the
\* write-through ended without a put.
C5_Witness ==
    \E s \in Slots :
        /\ req[s] = Request(ApiItems, "GET", "cors", "other")
        /\ pc[s] = "done"
        /\ IsValidResponse(networkResponse[s])
        /\ result[s] = networkResponse[s]
        /\ wpc[s] = "skipped"
        /\ store[CACHE_NAME][ApiItems] = Undefined

\* C6 (generation sweep), as claimed: once the promise given to waitUntil has
\* settled, the existing instances are exactly the current generation.
C6_OnlyCurrentRemains ==
    actPc \in {"resolved", "rejected"} => Existing(cacheNames) = {CACHE_NAME}

\* C6, amended: once the activate step has resolved (every deletion succeeded)
\* no instance with another name exists, whatever a fetch handler did in
\* between; the current generation is there when install opened it.
C6_NoStaleAfterSweep ==
    actPc = "resolved" =>
        /\ Existing(cacheNames) \subseteq {CACHE_NAME}
        /\ (installOpen = "opened" => CACHE_NAME \in Existing(cacheNames))

\* C6 witness: both stale generations deleted while a fetch handler was at work.
C6_Witness ==
    /\ actPc = "resolved"
    /\ delStatus["goldshop-cache-v1"] = "deleted"
    /\ delStatus["goldshop-cache-v2"] = "deleted"
    /\ Existing(cacheNames) = {CACHE_NAME}
    /\ \E s \in Slots : pc[s] \in {"network", "fallback"}

\* C7 (manifest coverage), as claimed: when install has completed, a manifest
\* path has an entry in the current generation exactly when its attempt
\* succeeded.
C7_CoverageExact ==
    (installPc = "done" /\ installOpen = "opened") =>
        \A i \in ManifestIdx :
            /\ addStatus[i] = "ok" => store[CACHE_NAME][urlsToCache[i]] # Undefined
            /\ addStatus[i] = "failed" => store[CACHE_NAME][urlsToCache[i]] = Undefined

\* C7, amended: when install has completed, every path whose attempt succeeded
\* has the response that attempt fetched in the current generation, whichever
\* other paths failed; a failed attempt stores nothing, so its path has only
\* the entry, if any, the instance held before install.
C7_CoverageIndependent ==
    /\ []((installPc = "done" /\ installOpen = "opened") =>
            \A i \in ManifestIdx :
                /\ addStatus[i] = "ok" =>
                       store[CACHE_NAME][urlsToCache[i]] = InstalledResponse
                /\ addStatus[i] = "failed" =>
                       store[CACHE_NAME][urlsToCache[i]] # InstalledResponse)
    /\ [][\A n \in AllNames, u \in Urls :
            store'[n][u] # store[n][u] =>
                /\ n = CACHE_NAME
                /\ store'[n][u] = InstalledResponse
                /\ \E i \in ManifestIdx :
                       /\ urlsToCache[i] = u
                       /\ addStatus[i] = "pending"
                       /\ addStatus'[i] = "ok"]_vars

\* C7 witness: on empty storage '/offline.html' failed, install completed and
\* the other eight paths are cached.
C7_Witness ==
    /\ installPc = "done"
    /\ addStatus[Len(urlsToCache)] = "failed"
    /\ store[CACHE_NAME][OfflineUrl] = Undefined
    /\ \A i \in 1..(Len(urlsToCache) - 1) :
           /\ addStatus[i] = "ok"
           /\ store[CACHE_NAME][urlsToCache[i]] = InstalledResponse

\* C8 (install completion ordering): when the cache was opened, install is
\* complete only with every manifest entry's attempt settled, none pending and
\* none unattempted.
C8_CompleteAfterAllSettled ==
    (installPc = "done" /\ installOpen = "opened") =>
        \A i \in ManifestIdx : addStatus[i] \in {"ok", "failed"}

\* C8 witness: install complete after three entries failed and six succeeded.
C8_Witness ==
    /\ installPc = "done"
    /\ installOpen = "opened"
    /\ Cardinality({i \in ManifestIdx : addStatus[i] = "failed"}) = 3
    /\ Cardinality({i \in ManifestIdx : addStatus[i] = "ok"}) = 6

\* A stale instance that the running activate step has not deleted yet.
AwaitingDeletion(n) ==
    /\ n \in Existing(cacheNames)
    /\ n # CACHE_NAME
    /\ actPc \in {"keys", "deleting"}

\* C9 (activation ordering), as claimed: clients are never claimed while a
\* stale instance is still awaiting deletion.
C9_ClaimAfterCleanup ==
    claimed => ~\E n \in AllNames : AwaitingDeletion(n)

\* C9, amended: clients.claim() is called in the listener's synchronous run,
\* with the request for the cache names: clients are claimed exactly from the
\* moment the activate listener has run, before any name is enumerated.
C9_ClaimAtListenerStart ==
    claimed <=> actPc # "idle"

\* C9 witness: clients claimed while a deletion is pending.
C9_Witness ==
    /\ claimed
    /\ actPc = "deleting"
    /\ \E n \in AllNames : delStatus[n] = "pending" /\ AwaitingDeletion(n)

\* C10 (independent deletions): once the names are enumerated, every existing
\* instance with another name than the current generation has a deletion
\* issued, none is issued for the current generation, and a pending deletion
\* can complete whatever became of the others.
C10_EveryStaleDeletionIssued ==
    /\ actPc \in {"deleting", "resolved", "rejected"} =>
           \A n \in AllNames \ {CACHE_NAME} :
               n \in Existing(cacheNames) => delStatus[n] \in {"pending", "failed"}
    /\ delStatus[CACHE_NAME] = "none"
    /\ \A n \in AllNames : delStatus[n] = "pending" => ENABLED DeleteOk(n)

\* C10 witness: the deletion of v1 failed, the activate step is rejected, and
\* v2 has been deleted.
C10_Witness ==
    /\ actPc = "rejected"
    /\ delStatus["goldshop-cache-v1"] = "failed"
    /\ delStatus["goldshop-cache-v2"] = "deleted"
    /\ "goldshop-cache-v2" \notin Existing(cacheNames)

\* C11 (invalid response pass-through): a request that is not a navigation and
\* had no cached match, whose fetch resolved with a missing response or with a
\* response of a status other than 200 or of a type other than basic, ends
\* with exactly that response, without the offline lookup and without a
\* write-through; the step that delivers it leaves every cache as it was.
C11_InvalidPassThrough ==
    /\ [](\A s \in Slots :
            ( /\ pc[s] = "done"
              /\ ~isHtmlNavigation(req[s])
              /\ cachedResponse[s] = Undefined
              /\ ~IsFailure(networkResponse[s])
              /\ (networkResponse[s].status # 200 \/ networkResponse[s].type # "basic") )
            => /\ result[s] = networkResponse[s]
               /\ ~askedOffline[s]
               /\ wpc[s] = "none")
    /\ [][\A s \in Slots :
            ( /\ pc[s] = "network"
              /\ pc'[s] = "done"
              /\ (networkResponse'[s].status # 200 \/ networkResponse'[s].type # "basic") )
            => (store' = store /\ cacheNames' = cacheNames)]_vars

\* C11 witness: a script request without cached match ended with the
\* network's response of status 200 and type cors.
C11_Witness ==
    \E s \in Slots :
        /\ pc[s] = "done"
        /\ req[s] = Request(AppJs, "GET", "no-cors", "other")
        /\ cachedResponse[s] = Undefined
        /\ result[s] = networkResponse[s]
        /\ result[s].status = 200
        /\ result[s].type = "cors"

\* C12 (lookup spans all generations): when the lookup of a GET request
\* resolves while the current-generation instance holds no entry for it and an
\* instance of an earlier generation, not yet deleted, does, the handler ends
\* with that instance's entry (the oldest instance's when several hold one)
\* and calls neither fetch nor the write-through.
C12_StaleGenerationAnswers ==
    [][\A s \in Slots :
        ( /\ pc[s] = "match"
          /\ pc'[s] # "match"
          /\ req[s].method = "GET"
          /\ ~HasEntry(CACHE_NAME, req[s].url)
          /\ \E n \in AllNames \ {CACHE_NAME} : HasEntry(n, req[s].url) )
        => /\ pc'[s] = "done"
           /\ result'[s] = OldestEntry(req[s].url)
           /\ IsResponse(result'[s])
           /\ fetchCalls'[s] = 0
           /\ networkResponse'[s] = Pending
           /\ wpc'[s] = "none"]_vars

\* C12 witness: a navigation to /dashboard was answered with the entry an
\* earlier generation holds, the current-generation instance holding none.
C12_Witness ==
    \E s \in Slots :
        /\ pc[s] = "done"
        /\ req[s].url = Dashboard
        /\ result[s] = OldResponse
        /\ fetchCalls[s] = 0
        /\ CACHE_NAME \in Existing(cacheNames)
        /\ store[CACHE_NAME][Dashboard] = Undefined
        /\ \E n \in AllNames \ {CACHE_NAME} : HasEntry(n, Dashboard)

\* C13 (write-after-respond): whenever the write-through of a handler is under
\* way or has ended (caches.open or cache.put pending, stored, skipped or
\* failed), the handler has already ended with the valid network response; no
\* step of the write-through, its failure included, changes what the caller
\* received.
C13_WriteAfterRespond ==
    /\ [](\A s \in Slots :
            wpc[s] # "none"
            => /\ pc[s] = "done"
               /\ result[s] = networkResponse[s]
               /\ result[s].status = 200
               /\ result[s].type = "basic")
    /\ [][\A s \in Slots :
            (wpc[s] \in {"open", "put"} /\ wpc'[s] # wpc[s])
            => (result'[s] = result[s] /\ pc'[s] = pc[s])]_vars

\* C13 witness: the response has been delivered while cache.put is pending.
C13_Witness ==
    \E s \in Slots :
        /\ pc[s] = "done"
        /\ wpc[s] = "put"
        /\ result[s] = networkResponse[s]
        /\ IsResponse(result[s])
        /\ store[CACHE_NAME][req[s].url] = Undefined

\* C14 (error surface): a handler that ended with a failure handled a request
\* that is not a navigation, and the failure is the one fetch rejected with;
\* a handler of a navigation always ends with a response.
C14_OnlyNetworkFailureSurfaces ==
    \A s \in Slots :
        pc[s] = "done"
        => /\ IsFailure(result[s])
                => (~isHtmlNavigation(req[s]) /\ result[s] = networkResponse[s])
           /\ isHtmlNavigation(req[s]) => IsResponse(result[s])

\* C15 (cache-open failure during install): when caches.open has rejected
\* during install, the promise given to waitUntil is resolved and every
\* manifest entry has been attempted.
C15_OpenFailureProceeds ==
    installOpen = "failed"
    => /\ installPc = "done"
       /\ \A i \in ManifestIdx : addStatus[i] # "unattempted"

\* C15, amended: when caches.open has rejected during install, the promise
\* given to waitUntil is resolved, no manifest entry is ever attempted, and the
\* rejection leaves the cache storage as it was.
C15_OpenFailureEndsInstall ==
    /\ [](installOpen = "failed"
            => /\ installPc = "done"
               /\ \A i \in ManifestIdx : addStatus[i] = "unattempted")
    /\ [][installOpen' = "failed" => (cacheNames' = cacheNames /\ store' = store)]_vars

\* C15 witness: install ended after a rejected open, on storage that held no
\* current-generation instance and holds none afterwards.
C15_Witness ==
    /\ installOpen = "failed"
    /\ installPc = "done"
    /\ CACHE_NAME \notin Existing(cacheNames)

\* C16 (lookup before network, no retry): a handler calls fetch at most once,
\* and only once its lookup has resolved with no match; fetch has settled only
\* if it was called; a handler whose lookup found a match calls fetch not at
\* all and starts no write-through.
C16_LookupBeforeNetworkOnce ==
    \A s \in Slots :
        /\ fetchCalls[s] <= 1
        /\ fetchCalls[s] = 1 => cachedResponse[s] = Undefined
        /\ networkResponse[s] # Pending => fetchCalls[s] = 1
        /\ pc[s] \in {"idle", "match", "threw"} => fetchCalls[s] = 0
        /\ IsResponse(cachedResponse[s])
             => (fetchCalls[s] = 0 /\ networkResponse[s] = Pending /\ wpc[s] = "none")

\* C16 witness: a handler ended with the rejection of its one fetch call.
C16_Witness ==
    \E s \in Slots :
        /\ pc[s] = "done"
        /\ cachedResponse[s] = Undefined
        /\ fetchCalls[s] = 1
        /\ IsFailure(networkResponse[s])
        /\ result[s] = networkResponse[s]

\* C17 (navigation classification): every request the listener receives, of
\* any mode and method, with an Accept header or without, reaches the cache
\* lookup, and the offline lookup is only ever made for a request of mode
\* navigate or a GET whose Accept header contains text/html.
C17_EveryRequestClassified ==
    \A s \in Slots :
        pc[s] # "idle"
        => /\ pc[s] # "threw"
           /\ pc[s] = "done" => result[s] # Pending
           /\ askedOffline[s]
                => (req[s].mode = "navigate"
                      \/ (req[s].method = "GET" /\ req[s].accept = "html"))

\* C18 (the current-generation cache only grows): no step of install, activate
\* or a fetch handler removes the current-generation instance once it exists,
\* and no step removes an entry it holds; an entry may only be replaced.
C18_CurrentGenerationGrows ==
    [][ /\ CACHE_NAME \in Existing(cacheNames) => CACHE_NAME \in Existing(cacheNames')
        /\ \A u \in Urls :
             store[CACHE_NAME][u] # Undefined => store'[CACHE_NAME][u] # Undefined ]_vars

\* C18 witness: after a sweep that deleted an earlier generation, the
\* current-generation instance still holds what install added and what a
\* fetch handler wrote through.
C18_Witness ==
    /\ actPc = "resolved"
    /\ \E n \in AllNames : delStatus[n] = "deleted"
    /\ cacheNames = <<CACHE_NAME>>
    /\ store[CACHE_NAME][Root] = InstalledResponse
    /\ \E s \in Slots : wpc[s] = "stored" /\ store[CACHE_NAME][AppJs] = networkResponse[s]

\* Handlers s and t are handling the same GET request without the API marker
\* and the lookup of each resolved with no match.
ConcurrentMisses(s, t) ==
    /\ s # t
    /\ req[s] = req[t]
    /\ req[s] \in CacheableRequests
    /\ cachedResponse[s] = Undefined
    /\ cachedResponse[t] = Undefined

\* C19 (concurrent misses on the same request): of two handlers that missed on
\* the same cacheable request, each calls fetch once, each ends with the
\* response of its own fetch, and each that got a valid response starts its
\* own write-through; every put that completes leaves its handler's response
\* under the key, so that after both puts the one entry is the response of the
\* put that completed last.
C19_ConcurrentMissesLastPutWins ==
    /\ [](\A s, t \in Slots :
            ConcurrentMisses(s, t)
            => /\ fetchCalls[s] = 1
               /\ (pc[s] = "done" /\ networkResponse[s].status = 200
                                  /\ networkResponse[s].type = "basic")
                    => (result[s] = networkResponse[s] /\ wpc[s] \notin {"none", "skipped"})
               /\ (wpc[s] = "stored" /\ wpc[t] = "stored")
                    => store[CACHE_NAME][req[s].url]
                         \in {networkResponse[s], networkResponse[t]})
    /\ [][\A s \in Slots :
            (wpc[s] = "put" /\ wpc'[s] = "stored")
            => store'[CACHE_NAME][req[s].url] = networkResponse[s]]_vars

\* C19 witness: two handlers missed on the same script request, got different
\* responses, both puts completed, and the entry is the response of one of
\* them while each handler ended with its own.
C19_Witness ==
    /\ ConcurrentMisses("f1", "f2")
    /\ req["f1"].url = AppJs
    /\ wpc["f1"] = "stored"
    /\ wpc["f2"] = "stored"
    /\ networkResponse["f1"] # networkResponse["f2"]
    /\ result["f1"] = networkResponse["f1"]
    /\ result["f2"] = networkResponse["f2"]
    /\ store[CACHE_NAME][AppJs] = networkResponse["f1"]

\* C20 (only valid responses are written through): a write-through is only
\* ever under way or completed for a network response of status 200 and type
\* basic, never after the offline lookup; and every step of a fetch handler
\* that changes a cache is a completed put that sets, in the
\* current-generation instance and nowhere else, the entry of the handler's
\* request to that response.
C20_OnlyValidWrittenThrough ==
    /\ [](\A s \in Slots :
            wpc[s] \in {"open", "put", "stored"}
            => /\ networkResponse[s].status = 200
               /\ networkResponse[s].type = "basic"
               /\ ~askedOffline[s])
    /\ [][(store' # store /\ installVars' = installVars /\ activateVars' = activateVars)
            => \E s \in Slots :
                 /\ wpc[s] = "put"
                 /\ wpc'[s] = "stored"
                 /\ networkResponse[s].status = 200
                 /\ networkResponse[s].type = "basic"
                 /\ store' = [store EXCEPT ![CACHE_NAME][req[s].url] = networkResponse[s]]]_vars

\* C20 witness: a handler stored the network's valid response for a script in
\* the current-generation instance while an instance of an earlier generation
\* exists and holds no entry for the script.
C20_Witness ==
    \E s \in Slots :
        /\ wpc[s] = "stored"
        /\ req[s].url = AppJs
        /\ store[CACHE_NAME][AppJs] = networkResponse[s]
        /\ networkResponse[s].status = 200
        /\ \E n \in AllNames \ {CACHE_NAME} :
             n \in Existing(cacheNames) /\ store[n][AppJs] = Undefined

====
